---- MODULE Spec2Model ----
(***************************************************************************)
(* A model of nomad/config/models.py: NomadSettings.customize (settings    *)
(* merge over a heap of objects with identity), the include/exclude        *)
(* queries of OptionsBase and Options, the glob variant of the filter      *)
(* (OptionsGlob, Filters), the loading of StrictSettings nodes, the       *)
(* validator of UnitSystem and the normalizer of WidgetScatterPlot.        *)
(***************************************************************************)
EXTENDS Integers, Sequences, FiniteSets, TLC

VARIABLES
    heap,   \* the objects of the program, by address: nodes, dicts and lists
    held,   \* the addresses the caller holds a reference to
    call,   \* the last customize call: its arguments, the heap before and after, its outcome
    muts,   \* through which node ("R", "B", "other") objects were mutated in place since that call
    nmut,   \* the number of in-place mutations made so far
    opt,    \* an Options node: its include, exclude and options fields
    out,    \* the last query made of opt and what it gave
    gopt,   \* an OptionsGlob node: its include and exclude pattern lists
    gout,   \* the last candidate tested against gopt and the verdict
    load,   \* the last StrictSettings node loaded: the input, the node, the log
    usys,   \* the last UnitSystem validated: the units given, the registry, the outcome
    wid     \* the last WidgetScatterPlot constructed: the input and the outcome

mergeVars == <<heap, held, call, muts, nmut>>
optVars == <<opt, out>>
globVars == <<gopt, gout>>
vars == <<heap, held, call, muts, nmut, opt, out, gopt, gout, load, usys, wid>>

----------------------------------------------------------------------------
(* Bounds of the model *)

MaxItems == 2
MaxMut == 1
MaxLen == 2
MaxHeap == 8
MaxUnits == 2

----------------------------------------------------------------------------
(* Values and objects *)

None == [t |-> "none", v |-> 0]
Num(n) == [t |-> "int", v |-> n]
Ref(a) == [t |-> "ref", v |-> a]
\* a string, the n-th of the quantity names in use
Str(n) == [t |-> "str", v |-> n]

Item(k, x) == [k |-> k, v |-> x]
Obj(c, its) == [cls |-> c, items |-> its]

NodeClasses == {"OptionsBase", "Options", "OptionsSingle"}
WidgetClasses == {"WidgetScatterPlot", "Axis", "Markers"}

\* cls.__fields__, in declaration order (inherited fields first)
Fields(c) ==
    IF c = "OptionsBase" THEN <<"include", "exclude">>
    ELSE IF c = "Options" THEN <<"include", "exclude", "options">>
    ELSE IF c = "OptionsSingle" THEN <<"include", "exclude", "options", "selected">>
    ELSE IF c = "Axis" THEN <<"title", "unit", "quantity">>
    ELSE IF c = "Markers" THEN <<"color">>
    ELSE IF c = "WidgetScatterPlot"
    THEN <<"type", "layout", "x", "y", "markers", "color", "size", "autorange">>
    ELSE <<>>

Range(s) == {s[i] : i \in 1..Len(s)}

IsNode(o) == o.cls \in NodeClasses \cup WidgetClasses

IndexOf(o, k) == CHOOSE i \in 1..Len(o.items) : o.items[i].k = k

\* getattr(obj, name) / mapping[key]
GetAttr(o, k) == o.items[IndexOf(o, k)].v

\* bool(value) as `if custom_settings:` evaluates it
Truthy(h, x) ==
    IF x.t = "none" THEN FALSE
    ELSE IF x.t = "int" THEN x.v /= 0
    ELSE IF x.t = "str" THEN TRUE
    ELSE IF IsNode(h[x.v]) THEN TRUE
    ELSE Len(h[x.v].items) > 0

Refs(o) == {o.items[i].v.v : i \in {j \in 1..Len(o.items) : o.items[j].v.t = "ref"}}

RECURSIVE ReachFrom(_, _)
ReachFrom(h, S) ==
    LET next == S \cup UNION {Refs(h[a]) : a \in S}
    IN IF next = S THEN S ELSE ReachFrom(h, next)

\* the objects reachable from the object at address a, itself included
Reach(h, a) == ReachFrom(h, {a})

RECURSIVE DeepEq(_, _, _, _)
\* value x of heap h1 and value y of heap h2 are equal at every nesting depth
DeepEq(h1, x, h2, y) ==
    IF x.t /= "ref" \/ y.t /= "ref" THEN x = y
    ELSE LET o1 == h1[x.v]
             o2 == h2[y.v]
         IN /\ o1.cls = o2.cls
            /\ Len(o1.items) = Len(o2.items)
            /\ \A i \in 1..Len(o1.items) :
                  /\ o1.items[i].k = o2.items[i].k
                  /\ DeepEq(h1, o1.items[i].v, h2, o2.items[i].v)

----------------------------------------------------------------------------
(* NomadSettings.customize *)

\* a copy that is no copy: rv = self
NoCopy(h, a) == [heap |-> h, addr |-> a]

\* self.copy(deep=True): pydantic builds the copy from copy.deepcopy of the
\* mapping of self's field values, so every object reachable from a field
\* value is copied once, to a fresh address, and the references among the
\* copies follow the originals'.  self is not in deepcopy's memo: when self
\* is reachable from one of its own fields, the references to it are
\* copied to a second copy of self, which is not the node returned
DeepCopy(h, a) ==
    LET RS == Reach(h, a)
        inner == ReachFrom(h, Refs(h[a]))
        n == Cardinality(RS)
        NewAddr(x) == Len(h) + Cardinality({y \in RS : y <= x})
        Old(i) == CHOOSE x \in RS : NewAddr(x) = Len(h) + i
        Remap(x) == IF x.t /= "ref" THEN x
                    ELSE IF x.v = a THEN Ref(Len(h) + n + 1)
                    ELSE Ref(NewAddr(x.v))
        CopyOf(o) == Obj(o.cls, [i \in 1..Len(o.items) |->
                                    Item(o.items[i].k, Remap(o.items[i].v))])
    IN [heap |-> h \o [i \in 1..n |-> CopyOf(h[Old(i)])]
                   \o (IF a \in inner THEN <<CopyOf(h[a])>> ELSE <<>>),
        addr |-> NewAddr(a)]

\* the names pydantic's BaseModel.__setattr__ hands to object.__setattr__
\* before it looks at the fields
DUNDER_ATTRIBUTES ==
    {"__annotations__", "__classcell__", "__classdictcell__", "__doc__",
     "__firstlineno__", "__module__", "__orig_bases__", "__orig_class__",
     "__qualname__", "__static_attributes__"}

\* pydantic's BaseModel.__setattr__ raises ValueError for a name that is
\* neither one of DUNDER_ATTRIBUTES nor a declared field
CanSetAttr(o, name) == name \in DUNDER_ATTRIBUTES \cup Range(Fields(o.cls))

\* an assignment that is lost
SetAttrLost(h, a, name, x) == h

\* an assignment that binds the name to a deep copy of the value
SetAttrCopy(h, a, name, x) ==
    LET c == IF x.t = "ref" THEN DeepCopy(h, x.v) ELSE [heap |-> h, addr |-> 0]
        y == IF x.t = "ref" THEN Ref(c.addr) ELSE x
    IN IF \E i \in 1..Len(h[a].items) : h[a].items[i].k = name
       THEN [c.heap EXCEPT ![a].items[IndexOf(h[a], name)].v = y]
       ELSE [c.heap EXCEPT ![a].items =
                [i \in 1..(Len(h[a].items) + 1) |->
                    IF i <= Len(h[a].items) THEN h[a].items[i] ELSE Item(name, y)]]

\* an assignment that runs the widget's normalizer on the value, as under
\* validate_assignment
SetAttrNormalizing(h, a, name, x) ==
    LET n == Len(h)
        axis == Obj("Axis", <<Item("title", None), Item("unit", None),
                              Item("quantity", x)>>)
    IN IF h[a].cls = "WidgetScatterPlot" /\ name = "color" /\ x /= None
       THEN [h \o <<Obj("Markers", <<Item("color", Ref(n + 2))>>), axis>>
                EXCEPT ![a].items[IndexOf(h[a], "markers")].v = Ref(n + 1)]
       ELSE IF h[a].cls = "WidgetScatterPlot" /\ name \in {"x", "y"} /\ x.t = "str"
       THEN [h \o <<axis>> EXCEPT ![a].items[IndexOf(h[a], name)].v = Ref(n + 1)]
       ELSE IF \E i \in 1..Len(h[a].items) : h[a].items[i].k = name
       THEN [h EXCEPT ![a].items[IndexOf(h[a], name)].v = x]
       ELSE [h EXCEPT ![a].items =
                [i \in 1..(Len(h[a].items) + 1) |->
                    IF i <= Len(h[a].items) THEN h[a].items[i] ELSE Item(name, x)]]

\* setattr(rv, name, value): the name is bound in rv.__dict__ to the value
\* given, which rebinds a field, or binds the name (one of
\* DUNDER_ATTRIBUTES) after the fields if rv has no such name yet
SetAttr(h, a, name, x) ==
    IF \E i \in 1..Len(h[a].items) : h[a].items[i].k = name
    THEN [h EXCEPT ![a].items[IndexOf(h[a], name)].v = x]
    ELSE [h EXCEPT ![a].items =
             [i \in 1..(Len(h[a].items) + 1) |->
                 IF i <= Len(h[a].items) THEN h[a].items[i] ELSE Item(name, x)]]

Returned(h, rv) ==
    [status |-> "ok", heap |-> h, rv |-> rv, local |-> rv,
     field |-> "", value |-> None, shape |-> ""]

\* raise AssertionError(f'Invalid setting: ...'): nothing is returned; the
\* copy stays behind in the heap as the dead frame's local
Raised(h, rv, name, x, shape) ==
    [status |-> "AssertionError", heap |-> h, rv |-> 0, local |-> rv,
     field |-> name, value |-> x, shape |-> shape]

RECURSIVE ApplyNodeSparse(_, _, _, _, _)
\* a node override applied as a sparse patch: None-valued fields are skipped
ApplyNodeSparse(h, rv, o, names, i) ==
    IF i > Len(names) THEN Returned(h, rv)
    ELSE IF GetAttr(o, names[i]) = None THEN ApplyNodeSparse(h, rv, o, names, i + 1)
    ELSE IF CanSetAttr(h[rv], names[i])
         THEN ApplyNodeSparse(SetAttr(h, rv, names[i], GetAttr(o, names[i])),
                              rv, o, names, i + 1)
         ELSE Raised(h, rv, names[i], None, "node")

RECURSIVE ApplyNode(_, _, _, _, _)
\* for field_name in custom_settings.__fields__.keys(): ...
ApplyNode(h, rv, o, names, i) ==
    IF i > Len(names) THEN Returned(h, rv)
    ELSE IF CanSetAttr(h[rv], names[i])
         THEN ApplyNode(SetAttr(h, rv, names[i], GetAttr(o, names[i])), rv, o, names, i + 1)
         ELSE Raised(h, rv, names[i], None, "node")

RECURSIVE ApplyDictNoSkip(_, _, _, _)
\* a mapping override whose None values are applied like any other value
ApplyDictNoSkip(h, rv, its, i) ==
    IF i > Len(its) THEN Returned(h, rv)
    ELSE IF CanSetAttr(h[rv], its[i].k)
         THEN ApplyDictNoSkip(SetAttr(h, rv, its[i].k, its[i].v), rv, its, i + 1)
         ELSE Raised(h, rv, its[i].k, its[i].v, "mapping")

RECURSIVE ApplyDict(_, _, _, _)
\* for key, value in custom_settings.items(): ...
ApplyDict(h, rv, its, i) ==
    IF i > Len(its) THEN Returned(h, rv)
    ELSE IF its[i].v = None THEN ApplyDict(h, rv, its, i + 1)
    ELSE IF CanSetAttr(h[rv], its[i].k)
         THEN ApplyDict(SetAttr(h, rv, its[i].k, its[i].v), rv, its, i + 1)
         ELSE Raised(h, rv, its[i].k, its[i].v, "mapping")

\* self.customize(custom_settings), self an address and custom_settings a value
Customize(h, self, arg) ==
    LET c == DeepCopy(h, self)
    IN IF ~Truthy(h, arg) THEN Returned(c.heap, c.addr)
       ELSE IF arg.t /= "ref" THEN Returned(c.heap, c.addr)
       ELSE IF IsNode(h[arg.v])
            THEN ApplyNode(c.heap, c.addr, h[arg.v], Fields(h[arg.v].cls), 1)
       ELSE IF h[arg.v].cls = "dict"
            THEN ApplyDict(c.heap, c.addr, h[arg.v].items, 1)
       ELSE Returned(c.heap, c.addr)

----------------------------------------------------------------------------
(* OptionsBase.filter and the keyed queries of Options *)

\* the values the expressions of filter work on
PyNone == [t |-> "none", b |-> FALSE, l |-> <<>>]
PyBool(x) == [t |-> "bool", b |-> x, l |-> <<>>]
PyList(s) == [t |-> "list", b |-> FALSE, l |-> s]

\* bool(x)
PyTruthy(x) ==
    IF x.t = "none" THEN FALSE
    ELSE IF x.t = "bool" THEN x.b
    ELSE Len(x.l) > 0

\* not x, x or y, x and y, v in x
PyNot(x) == PyBool(~PyTruthy(x))
PyOr(x, y) == IF PyTruthy(x) THEN x ELSE y
PyAnd(x, y) == IF PyTruthy(x) THEN y ELSE x
PyIn(v, x) == PyBool(v \in Range(x.l))

\* the options field: None or a mapping, its entries in insertion order
OptNone == [t |-> "none", items |-> <<>>]
OptDict(its) == [t |-> "dict", items |-> its]

\* filter with an empty include list read as an explicit list
FilterEmptyExplicit(o, value) ==
    LET included == PyOr(PyOr(PyBool(o.include = PyNone), PyIn(value, o.include)),
                         PyIn("*", o.include))
        excluded == PyAnd(o.exclude, PyOr(PyIn(value, o.exclude), PyIn("*", o.exclude)))
    IN PyAnd(included, PyNot(excluded))

\* filter without the wildcard in include
FilterNoWildcard(o, value) ==
    LET included == PyOr(PyNot(o.include), PyIn(value, o.include))
        excluded == PyAnd(o.exclude, PyOr(PyIn(value, o.exclude), PyIn("*", o.exclude)))
    IN PyAnd(included, PyNot(excluded))

\* self.filter(value)
Filter(o, value) ==
    LET included == PyOr(PyOr(PyNot(o.include), PyIn(value, o.include)),
                         PyIn("*", o.include))
        excluded == PyAnd(o.exclude, PyOr(PyIn(value, o.exclude), PyIn("*", o.exclude)))
    IN PyAnd(included, PyNot(excluded))

\* list(self.options.keys())
OptionKeys(o) == [i \in 1..Len(o.options.items) |-> o.options.items[i].k]

\* self.options[key]
OptionValue(o, key) ==
    o.options.items[CHOOSE i \in 1..Len(o.options.items) : o.options.items[i].k = key].v

\* `same` names the object the returned list is: a list built by the call
\* ("new") or a list the node holds ("include")
QueryOk(ks, vs, ps) ==
    [status |-> "ok", keys |-> ks, vals |-> vs, pairs |-> ps, same |-> "new"]
QueryRaised(e) ==
    [status |-> e, keys |-> <<>>, vals |-> <<>>, pairs |-> <<>>, same |-> "none"]

\* filtered_keys that leaves the exclude list out
FilteredKeysNoExclude(o) ==
    IF (o.include = PyNone \/ "*" \in Range(o.include.l)) /\ o.options.t = "none"
    THEN QueryRaised("AttributeError")
    ELSE LET include == IF o.include = PyNone \/ "*" \in Range(o.include.l)
                        THEN OptionKeys(o) ELSE o.include.l
         IN IF o.exclude /= PyNone /\ "*" \in Range(o.exclude.l)
            THEN QueryOk(<<>>, <<>>, <<>>)
            ELSE QueryOk(include, <<>>, <<>>)

\* filtered_keys with an absent include read as an empty list
FilteredKeysNoneIsEmpty(o) ==
    IF (o.include /= PyNone /\ "*" \in Range(o.include.l)) /\ o.options.t = "none"
    THEN QueryRaised("AttributeError")
    ELSE LET include == IF o.include /= PyNone /\ "*" \in Range(o.include.l)
                        THEN OptionKeys(o) ELSE o.include.l
         IN IF o.exclude /= PyNone /\ "*" \in Range(o.exclude.l)
            THEN QueryOk(<<>>, <<>>, <<>>)
            ELSE LET exclude == PyOr(o.exclude, PyList(<<>>)).l
                 IN QueryOk(SelectSeq(include, LAMBDA key : key \notin Range(exclude)),
                            <<>>, <<>>)

\* filtered_keys with '*' in include read as a name like any other
FilteredKeysStarLiteral(o) ==
    IF o.include = PyNone /\ o.options.t = "none"
    THEN QueryRaised("AttributeError")
    ELSE LET include == IF o.include = PyNone THEN OptionKeys(o) ELSE o.include.l
         IN IF o.exclude /= PyNone /\ "*" \in Range(o.exclude.l)
            THEN QueryOk(<<>>, <<>>, <<>>)
            ELSE LET exclude == PyOr(o.exclude, PyList(<<>>)).l
                 IN QueryOk(SelectSeq(include, LAMBDA key : key \notin Range(exclude)),
                            <<>>, <<>>)

\* filtered_keys that always walks the options, keeping the included ones
FilteredKeysFromOptions(o) ==
    IF o.options.t = "none"
    THEN QueryRaised("AttributeError")
    ELSE IF o.exclude /= PyNone /\ "*" \in Range(o.exclude.l)
    THEN QueryOk(<<>>, <<>>, <<>>)
    ELSE LET exclude == PyOr(o.exclude, PyList(<<>>)).l
         IN QueryOk(SelectSeq(OptionKeys(o),
                              LAMBDA key : /\ key \notin Range(exclude)
                                           /\ \/ o.include = PyNone
                                              \/ "*" \in Range(o.include.l)
                                              \/ key \in Range(o.include.l)),
                    <<>>, <<>>)

\* filtered_keys that hands out self.include itself when nothing is excluded
FilteredKeysReturnsInclude(o) ==
    IF (o.include = PyNone \/ "*" \in Range(o.include.l)) /\ o.options.t = "none"
    THEN QueryRaised("AttributeError")
    ELSE LET all == o.include = PyNone \/ "*" \in Range(o.include.l)
             include == IF all THEN OptionKeys(o) ELSE o.include.l
         IN IF o.exclude /= PyNone /\ "*" \in Range(o.exclude.l)
            THEN QueryOk(<<>>, <<>>, <<>>)
            ELSE LET exclude == PyOr(o.exclude, PyList(<<>>)).l
                     keys == SelectSeq(include, LAMBDA key : key \notin Range(exclude))
                 IN IF ~all /\ exclude = <<>>
                    THEN [QueryOk(keys, <<>>, <<>>) EXCEPT !.same = "include"]
                    ELSE QueryOk(keys, <<>>, <<>>)

\* self.filtered_keys(); self.options.keys() raises when options is None
FilteredKeys(o) ==
    IF (o.include = PyNone \/ "*" \in Range(o.include.l)) /\ o.options.t = "none"
    THEN QueryRaised("AttributeError")
    ELSE LET include == IF o.include = PyNone \/ "*" \in Range(o.include.l)
                        THEN OptionKeys(o) ELSE o.include.l
         IN IF o.exclude /= PyNone /\ "*" \in Range(o.exclude.l)
            THEN QueryOk(<<>>, <<>>, <<>>)
            ELSE LET exclude == PyOr(o.exclude, PyList(<<>>)).l
                 IN QueryOk(SelectSeq(include, LAMBDA key : key \notin Range(exclude)),
                            <<>>, <<>>)

\* the keys of filtered_keys() that pass `if key in self.options`, which
\* raises when there is a key to test and options is None
PresentKeys(o, ks) == SelectSeq(ks, LAMBDA key : key \in Range(OptionKeys(o)))

\* filtered_values without the `if key in self.options` guard
FilteredValuesNoGuard(o) ==
    LET r == FilteredKeys(o)
    IN IF r.status /= "ok" THEN r
       ELSE IF r.keys /= <<>> /\ o.options.t = "none" THEN QueryRaised("TypeError")
       ELSE IF \E i \in 1..Len(r.keys) : r.keys[i] \notin Range(OptionKeys(o))
            THEN QueryRaised("KeyError")
       ELSE QueryOk(<<>>, [i \in 1..Len(r.keys) |-> OptionValue(o, r.keys[i])], <<>>)

\* self.filtered_values()
FilteredValues(o) ==
    LET r == FilteredKeys(o)
    IN IF r.status /= "ok" THEN r
       ELSE IF r.keys /= <<>> /\ o.options.t = "none" THEN QueryRaised("TypeError")
       ELSE LET ks == PresentKeys(o, r.keys)
            IN QueryOk(<<>>, [i \in 1..Len(ks) |-> OptionValue(o, ks[i])], <<>>)

\* filtered_items that walks the options instead of filtered_keys()
FilteredItemsOptionsOrder(o) ==
    LET r == FilteredKeys(o)
    IN IF r.status /= "ok" THEN r
       ELSE IF r.keys /= <<>> /\ o.options.t = "none" THEN QueryRaised("TypeError")
       ELSE LET ks == SelectSeq(OptionKeys(o), LAMBDA key : key \in Range(r.keys))
            IN QueryOk(<<>>, <<>>,
                       [i \in 1..Len(ks) |-> [k |-> ks[i], v |-> OptionValue(o, ks[i])]])

\* self.filtered_items()
FilteredItems(o) ==
    LET r == FilteredKeys(o)
    IN IF r.status /= "ok" THEN r
       ELSE IF r.keys /= <<>> /\ o.options.t = "none" THEN QueryRaised("TypeError")
       ELSE LET ks == PresentKeys(o, r.keys)
            IN QueryOk(<<>>, <<>>,
                       [i \in 1..Len(ks) |-> [k |-> ks[i], v |-> OptionValue(o, ks[i])]])

----------------------------------------------------------------------------
(* OptionsGlob and Filters: include and exclude lists of glob patterns.    *)
(* The source declares the two fields and says they support glob syntax;   *)
(* the matching itself is not in the source and is modelled from the       *)
(* specification's contract of the glob variant.  A pattern and a          *)
(* candidate are sequences of characters.                                  *)

\* the index of the "]" that closes the class opened at p[1], 0 if none
ClassEnd(p) ==
    LET first == IF Len(p) >= 2 /\ p[2] = "!" THEN 3 ELSE 2
        js == {j \in (first + 1)..Len(p) : p[j] = "]"}
    IN IF js = {} THEN 0 ELSE CHOOSE j \in js : \A k \in js : j <= k

\* membership read as equality with the pattern
GlobMatchExact(p, s) == p = s

\* shell-style matching: "*" any run of characters, "?" one character,
\* "[...]" one of the characters listed, "[!...]" one not listed
RECURSIVE GlobMatch(_, _)
GlobMatch(p, s) ==
    IF p = <<>> THEN s = <<>>
    ELSE IF Head(p) = "*"
    THEN GlobMatch(Tail(p), s) \/ (s /= <<>> /\ GlobMatch(p, Tail(s)))
    ELSE IF s = <<>> THEN FALSE
    ELSE IF Head(p) = "?" THEN GlobMatch(Tail(p), Tail(s))
    ELSE IF Head(p) = "[" /\ ClassEnd(p) > 0
    THEN LET e == ClassEnd(p)
             neg == p[2] = "!"
             members == {p[j] : j \in (IF neg THEN 3 ELSE 2)..(e - 1)}
         IN /\ (Head(s) \in members) /= neg
            /\ GlobMatch(SubSeq(p, e + 1, Len(p)), Tail(s))
    ELSE Head(p) = Head(s) /\ GlobMatch(Tail(p), Tail(s))

\* value matches at least one pattern in the list
GlobIn(value, x) == PyBool(\E i \in 1..Len(x.l) : GlobMatch(x.l[i], value))

\* the precedence of OptionsBase.filter, membership replaced by matching
GlobFilter(o, value) ==
    LET included == PyOr(PyNot(o.include), GlobIn(value, o.include))
        excluded == PyAnd(o.exclude, GlobIn(value, o.exclude))
    IN PyAnd(included, PyNot(excluded))

----------------------------------------------------------------------------
(* StrictSettings: loading a node from a document *)

\* the keys a document may hold and the values under them: one that the
\* field validates and one that it rejects
LoadKeys == {"include", "options", "selected", "bogus"}
LoadValues == {"value", "invalid"}

\* the documents: a value under each key of some set of keys
Documents == UNION {[K -> LoadValues] : K \in SUBSET LoadKeys}

EmptyDocument == [k \in {} |-> "value"]

\* the fields declared without a default, the default of the others
Required(c) == IF c = "OptionsSingle" THEN {"selected"} ELSE {}
DefaultOf(f) == IF f = "options" THEN "{}" ELSE "None"

\* StrictSettings.__print_extra_field__(cls, values): the values it hands
\* on and the warnings it logs, each the set of fields it names
PrintExtraField(c, values) ==
    LET extra_fields == DOMAIN values \ Range(Fields(c))
    IN [values |-> values,
        log |-> IF extra_fields /= {} THEN <<extra_fields>> ELSE <<>>]

\* validation under extra=Extra.forbid
ValidateForbidExtra(c, values) ==
    LET fields == Range(Fields(c))
        errors == {f \in fields : IF f \in DOMAIN values THEN values[f] = "invalid"
                                  ELSE f \in Required(c)}
    IN IF errors /= {} \/ DOMAIN values \ fields /= {}
       THEN [status |-> "ValidationError", node |-> EmptyDocument]
       ELSE [status |-> "ok",
             node |-> [f \in fields |-> IF f \in DOMAIN values THEN values[f]
                                        ELSE DefaultOf(f)]]

\* the validation of the declared fields under extra=Extra.ignore: a key
\* that is no field is dropped, an absent field gets its default
ValidateModel(c, values) ==
    LET fields == Range(Fields(c))
        errors == {f \in fields : IF f \in DOMAIN values THEN values[f] = "invalid"
                                  ELSE f \in Required(c)}
    IN IF errors /= {}
       THEN [status |-> "ValidationError", node |-> EmptyDocument]
       ELSE [status |-> "ok",
             node |-> [f \in fields |-> IF f \in DOMAIN values THEN values[f]
                                        ELSE DefaultOf(f)]]

\* cls(**values): the pre root validator, then the validation
LoadNode(c, values) ==
    LET pre == PrintExtraField(c, values)
        res == ValidateModel(c, pre.values)
    IN [cls |-> c, values |-> values, status |-> res.status, node |-> res.node,
        log |-> pre.log]

----------------------------------------------------------------------------
(* UnitSystem: the validator that checks the dimensions, fills in the SI   *)
(* defaults and looks every definition up in the unit registry.  The       *)
(* units mapping is a sequence of entries in insertion order, each a       *)
(* dimension and the definition given for it.                              *)

dimensions ==
    << "dimensionless", "length", "mass", "time", "current", "temperature",
       "luminosity", "luminous_flux", "substance", "angle", "information",
       "force", "energy", "power", "pressure", "charge", "resistance",
       "conductance", "inductance", "magnetic_flux", "magnetic_field",
       "frequency", "luminance", "illuminance", "electric_potential",
       "capacitance", "activity" >>

\* the definitions of the SI table, in the order of its dimensions
SIDefinitions ==
    << "dimensionless", "m", "kg", "s", "A", "K",
       "cd", "lm", "mol", "rad", "bit",
       "N", "J", "W", "Pa", "C", "Ω",
       "S", "H", "Wb", "T",
       "Hz", "nit", "lx", "V",
       "F", "kat" >>

\* SI[dimension]
SI(d) == SIDefinitions[CHOOSE i \in 1..Len(dimensions) : dimensions[i] = d]

\* units[key] = {'definition': d}
Unit(k, d) == [k |-> k, d |-> d]

UnitKeysOf(units) == {units[i].k : i \in 1..Len(units)}

\* the first key of units that is no supported dimension, "" if there is none
FirstUnsupported(units) ==
    LET bad == {i \in 1..Len(units) : units[i].k \notin Range(dimensions)}
    IN IF bad = {} THEN ""
       ELSE units[CHOOSE i \in bad : \A j \in bad : i <= j].k

\* every dimension set to its SI default
FillDefaultsOverwrite(units) ==
    [i \in 1..Len(dimensions) |-> Unit(dimensions[i], SI(dimensions[i]))]

\* for dimension in dimensions: if dimension not in units:
\*     units[dimension] = {'definition': SI[dimension]}
FillDefaults(units) ==
    LET missing == SelectSeq(dimensions, LAMBDA d : d \notin UnitKeysOf(units))
    IN units \o [i \in 1..Len(missing) |-> Unit(missing[i], SI(missing[i]))]

\* a lookup of the first given entries only
LookupGivenOnly(units, undefined) ==
    LET given == SubSeq(units, 1, Len(units) - Len(dimensions))
        bad == {i \in 1..Len(given) : given[i].d \in undefined}
        stop == IF bad = {} THEN Len(units) ELSE CHOOSE i \in bad : \A j \in bad : i <= j
    IN [failed |-> bad /= {},
        looked |-> [i \in 1..stop |-> units[i].d]]

\* for value in units.values(): ureg.Unit(value['definition']), up to the
\* first definition the registry does not know
Lookup(units, undefined) ==
    LET bad == {i \in 1..Len(units) : units[i].d \in undefined}
        stop == IF bad = {} THEN Len(units) ELSE CHOOSE i \in bad : \A j \in bad : i <= j
    IN [failed |-> bad /= {},
        looked |-> [i \in 1..stop |-> units[i].d]]

UnitsRaised(given, items, undefined, kind, subject, supplied, looked) ==
    [given |-> given, items |-> items, undefined |-> undefined,
     status |-> "AssertionError", kind |-> kind, subject |-> subject,
     supplied |-> supplied, looked |-> looked, units |-> <<>>]

UnitsValidated(given, items, undefined, supplied, looked, units) ==
    [given |-> given, items |-> items, undefined |-> undefined,
     status |-> "ok", kind |-> "", subject |-> "",
     supplied |-> supplied, looked |-> looked, units |-> units]

\* the validator with the lookup of the given definitions made first
ValidateUnitsLookupFirst(given, items, undefined) ==
    LET units == IF given THEN items ELSE <<>>
        first == Lookup(units, undefined)
        filled == FillDefaults(units)
        found == Lookup(filled, undefined)
    IN IF first.failed
       THEN UnitsRaised(given, items, undefined, "Unsupported unit",
                        first.looked[Len(first.looked)], units, first.looked)
       ELSE IF FirstUnsupported(units) /= ""
       THEN UnitsRaised(given, items, undefined, "Unsupported dimension",
                        FirstUnsupported(units), units, first.looked)
       ELSE IF found.failed
       THEN UnitsRaised(given, items, undefined, "Unsupported unit",
                        found.looked[Len(found.looked)], filled, found.looked)
       ELSE UnitsValidated(given, items, undefined, filled, found.looked, filled)

\* the validator working on a copy of the mapping it was handed
ValidateUnitsOnCopy(given, items, undefined) ==
    LET units == IF given THEN items ELSE <<>>
        filled == FillDefaults(units)
        found == Lookup(filled, undefined)
    IN IF FirstUnsupported(units) /= ""
       THEN UnitsRaised(given, items, undefined, "Unsupported dimension",
                        FirstUnsupported(units), units, <<>>)
       ELSE IF found.failed
       THEN UnitsRaised(given, items, undefined, "Unsupported unit",
                        found.looked[Len(found.looked)], units, found.looked)
       ELSE UnitsValidated(given, items, undefined, units, found.looked, filled)

\* UnitSystem(label=..., units=items), or UnitSystem(label=...) when no
\* units are given, with a registry that does not know the definitions of
\* undefined: units = values.get('units', {}) is the mapping the caller
\* supplied, so that `supplied` is that mapping as the call leaves it
ValidateUnitSystem(given, items, undefined) ==
    LET units == IF given THEN items ELSE <<>>
        filled == FillDefaults(units)
        found == Lookup(filled, undefined)
    IN IF FirstUnsupported(units) /= ""
       THEN UnitsRaised(given, items, undefined, "Unsupported dimension",
                        FirstUnsupported(units), units, <<>>)
       ELSE IF found.failed
       THEN UnitsRaised(given, items, undefined, "Unsupported unit",
                        found.looked[Len(found.looked)], filled, found.looked)
       ELSE UnitsValidated(given, items, undefined, filled, found.looked, filled)

----------------------------------------------------------------------------
(* WidgetScatterPlot: the normalizer of the legacy input shape.  The       *)
(* input is a mapping from keys to values; a value is None, a string,      *)
(* an axis mapping {'quantity': s} or a markers mapping                    *)
(* {'color': {'quantity': s}}.                                             *)

AxisMap(n) == [t |-> "axis", v |-> n]
MarkersMap(n) == [t |-> "markers", v |-> n]
Absent == [t |-> "absent", v |-> 0]
\* Markers(color=None), as a field value
EmptyMarkers == [t |-> "nocolor", v |-> 0]

\* values.get(key): None when the key is absent
Get(values, key) == IF key \in DOMAIN values THEN values[key] ELSE None

\* the normalizer that leaves a markers value given in the input alone
BackwardsCompatibilityKeepMarkers(values) ==
    LET color == Get(values, "color")
        moved == IF color /= None
                 THEN [k \in (DOMAIN values \cup {"markers"}) \ {"color"} |->
                          IF k = "markers" /\ "markers" \notin DOMAIN values
                          THEN MarkersMap(color.v) ELSE values[k]]
                 ELSE values
    IN [k \in DOMAIN moved |->
           IF k \in {"x", "y"} /\ moved[k].t = "str" THEN AxisMap(moved[k].v)
           ELSE moved[k]]

\* the normalizer without `del values['color']`
BackwardsCompatibilityKeepColor(values) ==
    LET color == Get(values, "color")
        moved == IF color /= None
                 THEN [k \in DOMAIN values \cup {"markers"} |->
                          IF k = "markers" THEN MarkersMap(color.v) ELSE values[k]]
                 ELSE values
    IN [k \in DOMAIN moved |->
           IF k \in {"x", "y"} /\ moved[k].t = "str" THEN AxisMap(moved[k].v)
           ELSE moved[k]]

\* WidgetScatterPlot.backwards_compatibility(cls, values)
BackwardsCompatibility(values) ==
    LET color == Get(values, "color")
        moved == IF color /= None
                 THEN [k \in (DOMAIN values \cup {"markers"}) \ {"color"} |->
                          IF k = "markers" THEN MarkersMap(color.v) ELSE values[k]]
                 ELSE values
    IN [k \in DOMAIN moved |->
           IF k \in {"x", "y"} /\ moved[k].t = "str" THEN AxisMap(moved[k].v)
           ELSE moved[k]]

\* the validation of the fields x, y, markers and color: x and y are
\* required and take an axis mapping or a string, markers and color are
\* optional.  markers takes any mapping that Markers validates: Markers has
\* no required field and ignores a key it does not declare, so that an
\* axis mapping {'quantity': s} gives Markers(color=None)
ValidateWidget(values) ==
    LET Given(k) == IF k \in DOMAIN values THEN values[k] ELSE Absent
        errors == {k \in {"x", "y"} : Given(k).t \notin {"axis", "str"}}
                     \cup {k \in {"markers"} :
                              Given(k).t \notin {"absent", "none", "markers", "axis"}}
                     \cup {k \in {"color"} : Given(k).t \notin {"absent", "none", "str"}}
    IN IF errors /= {}
       THEN [status |-> "ValidationError", x |-> None, y |-> None,
             markers |-> None, color |-> None]
       ELSE [status |-> "ok", x |-> Given("x"), y |-> Given("y"),
             markers |-> IF Given("markers").t = "axis" THEN EmptyMarkers
                         ELSE Get(values, "markers"),
             color |-> Get(values, "color")]

AxisObj(n) ==
    Obj("Axis", <<Item("title", None), Item("unit", None), Item("quantity", Str(n))>>)

\* the objects of a constructed widget: the node at address 1, its layout
\* at 2, then its Axis and Markers objects
WidgetHeap(node) ==
    LET xo == IF node.x.t = "axis" THEN <<AxisObj(node.x.v)>> ELSE <<>>
        yo == IF node.y.t = "axis" THEN <<AxisObj(node.y.v)>> ELSE <<>>
        xa == 3
        ya == xa + Len(xo)
        ma == ya + Len(yo)
        mo == IF node.markers.t = "markers"
              THEN <<Obj("Markers", <<Item("color", Ref(ma + 1))>>),
                     AxisObj(node.markers.v)>>
              ELSE IF node.markers = EmptyMarkers
              THEN <<Obj("Markers", <<Item("color", None)>>)>>
              ELSE <<>>
    IN << Obj("WidgetScatterPlot",
              << Item("type", Str(0)), Item("layout", Ref(2)),
                 Item("x", IF node.x.t = "axis" THEN Ref(xa) ELSE node.x),
                 Item("y", IF node.y.t = "axis" THEN Ref(ya) ELSE node.y),
                 Item("markers", IF node.markers = None THEN None ELSE Ref(ma)),
                 Item("color", node.color),
                 Item("size", Num(1000)), Item("autorange", Num(1)) >>),
          Obj("dict", <<>>) >> \o xo \o yo \o mo

\* WidgetScatterPlot(type='scatterplot', layout={}, **values): the pre root
\* validator, then the validation of the fields
ConstructedWidget(values) ==
    LET normalized == BackwardsCompatibility(values)
        node == ValidateWidget(normalized)
    IN [status |-> node.status, input |-> values, values |-> normalized,
        heap |-> IF node.status = "ok" THEN WidgetHeap(node) ELSE <<>>]

----------------------------------------------------------------------------
(* The caller's steps *)

\* Options(): include and exclude are None, options is {}
DefaultOptions == [include |-> PyNone, exclude |-> PyNone, options |-> OptDict(<<>>)]

NoQuery ==
    [op |-> "none", arg |-> "", status |-> "none", bool |-> PyNone,
     keys |-> <<>>, vals |-> <<>>, pairs |-> <<>>, same |-> "none",
     at |-> DefaultOptions]

\* OptionsGlob(): include and exclude are None
DefaultGlob == [include |-> PyNone, exclude |-> PyNone]

NoGlobQuery == [op |-> "none", arg |-> <<>>, bool |-> PyNone]

NoLoad ==
    [cls |-> "", values |-> EmptyDocument, status |-> "none",
     node |-> EmptyDocument, log |-> <<>>]

\* the components a specification leaves alone stay as constructed
IdleGlob == gopt = DefaultGlob /\ gout = NoGlobQuery
IdleLoad == load = NoLoad

NoUnits ==
    [given |-> FALSE, items |-> <<>>, undefined |-> {}, status |-> "none",
     kind |-> "", subject |-> "", supplied |-> <<>>, looked |-> <<>>,
     units |-> <<>>]

IdleUnits == usys = NoUnits

NoWidget ==
    [status |-> "none", input |-> EmptyDocument, values |-> EmptyDocument,
     heap |-> <<>>]

IdleWidget == wid = NoWidget

NoCall ==
    [self |-> 0, arg |-> None, pre |-> <<>>, post |-> <<>>, status |-> "none",
     rv |-> 0, local |-> 0, field |-> "", value |-> None, shape |-> ""]

\* an Options node with a nested list and a nested mapping, whose entry is
\* x, and a second node of class c with its defaults
InitHeap(x, c) ==
    << Obj("Options", <<Item("include", None), Item("exclude", Ref(2)),
                        Item("options", Ref(3))>>),
       Obj("list", <<Item("0", Num(1))>>),
       Obj("dict", <<Item("a", x)>>) >>
    \o ( IF c = "OptionsBase"
         THEN << Obj(c, <<Item("include", None), Item("exclude", None)>>) >>
         ELSE IF c = "Options"
         THEN << Obj(c, <<Item("include", None), Item("exclude", None),
                          Item("options", Ref(5))>>),
                 Obj("dict", <<>>) >>
         ELSE << Obj(c, <<Item("include", None), Item("exclude", None),
                          Item("options", Ref(5)), Item("selected", Num(1))>>),
                 Obj("dict", <<>>) >> )

Init ==
    /\ \E x \in {Num(1), Ref(2)}, c \in NodeClasses : heap = InitHeap(x, c)
    /\ held = {1, 4}
    /\ call = NoCall
    /\ muts = {}
    /\ nmut = 0
    /\ opt = DefaultOptions
    /\ out = NoQuery
    /\ IdleGlob
    /\ IdleLoad
    /\ IdleUnits
    /\ IdleWidget

DictKeys == {"exclude", "options", "bogus"}

\* the values a caller puts into an override mapping: None, a number, or
\* one of the lists and mappings that exist
ArgValues ==
    {None, Num(1)} \cup {Ref(a) : a \in {b \in 1..Len(heap) : ~IsNode(heap[b])}}

\* the mappings of at most MaxItems entries, in every insertion order, and
\* the mappings with the key '__doc__', which is no field of any class but
\* one of DUNDER_ATTRIBUTES
ItemSeqs ==
    UNION {{s \in [1..n -> [k : DictKeys, v : ArgValues]] :
               \A i, j \in 1..n : i /= j => s[i].k /= s[j].k} : n \in 0..MaxItems}
    \cup { <<Item("__doc__", Num(1))>>,
           <<Item("exclude", Num(1)), Item("__doc__", Num(1))>>,
           <<Item("__doc__", Num(1)), Item("bogus", Num(1))>> }

HeldNodes == {a \in held : IsNode(heap[a])}

\* rv = self.customize(arg) on the heap h, the caller holding the objects
\* hold; a raised error returns nothing
Called(h, hold, self, arg) ==
    LET r == Customize(h, self, arg)
    IN /\ heap' = r.heap
       /\ held' = IF r.status = "ok" THEN hold \cup {r.rv} ELSE hold
       /\ call' = [self |-> self, arg |-> arg, pre |-> h, post |-> r.heap,
                   status |-> r.status, rv |-> r.rv, local |-> r.local,
                   field |-> r.field, value |-> r.value, shape |-> r.shape]
       /\ muts' = {}
       /\ UNCHANGED <<nmut, optVars, globVars, load, usys, wid>>

\* the caller builds the mapping o = {k: v, ...} and calls self.customize(o)
CustomizeMapping(self, its) ==
    /\ call.status = "none"
    /\ self \in HeldNodes
    /\ Called(Append(heap, Obj("dict", its)), held \cup {Len(heap) + 1},
              self, Ref(Len(heap) + 1))

\* the caller calls self.customize(o), o a node it holds (self included)
CustomizeNode(self, o) ==
    /\ call.status = "none"
    /\ self \in HeldNodes
    /\ o \in HeldNodes
    /\ Called(heap, held, self, Ref(o))

\* the caller calls self.customize(None)
CustomizeNone(self) ==
    /\ call.status = "none"
    /\ self \in HeldNodes
    /\ Called(heap, held, self, None)

Tag(root) ==
    IF root = call.rv THEN "R"
    ELSE IF root = call.self THEN "B"
    ELSE IF call.arg = Ref(root) THEN "O"
    ELSE "other"

\* after the call, the caller changes in place an object it reaches
\* through root: root.f = 2, root.f[k] = 2, ...
Mutate(root, a, i) ==
    /\ call.status /= "none"
    /\ nmut < MaxMut
    /\ root \in held
    /\ a \in Reach(heap, root)
    /\ i \in 1..Len(heap[a].items)
    /\ heap[a].items[i].v /= Num(2)
    /\ heap' = [heap EXCEPT ![a].items[i].v = Num(2)]
    /\ muts' = muts \cup {Tag(root)}
    /\ nmut' = nmut + 1
    /\ UNCHANGED <<held, call, optVars, globVars, load, usys, wid>>

\* one call per behaviour: an override is built and customize is called,
\* then the caller mutates what it holds
MappingOverride ==
    /\ call.status = "none"
    /\ \E self \in held, its \in ItemSeqs : CustomizeMapping(self, its)

NodeOverride ==
    /\ call.status = "none"
    /\ \E self \in held, o \in held : CustomizeNode(self, o)

NoOverride ==
    /\ call.status = "none"
    /\ \E self \in held : CustomizeNone(self)

InPlaceMutation ==
    /\ call.status /= "none"
    /\ nmut < MaxMut
    /\ \E root \in held, a \in 1..Len(heap) :
          \E i \in 1..Len(heap[a].items) : Mutate(root, a, i)

Next ==
    \/ MappingOverride
    \/ NodeOverride
    \/ NoOverride
    \/ InPlaceMutation

Spec == Init /\ [][Next]_vars

----------------------------------------------------------------------------
(* Sequences of customize calls: every call may start from any node the    *)
(* caller holds, the results of earlier calls included                     *)

\* the override mappings the caller chooses from
SeqOverrides ==
    { <<>>,
      <<Item("exclude", Ref(2))>>,
      <<Item("bogus", Num(1))>>,
      <<Item("__doc__", Num(1))>>,
      <<Item("options", None), Item("exclude", Num(1))>>,
      <<Item("exclude", Num(1)), Item("bogus", Num(1))>> }

\* self.customize({k: v, ...})
SeqMapping(self, its) ==
    /\ Len(heap) < MaxHeap
    /\ self \in HeldNodes
    /\ Called(Append(heap, Obj("dict", its)), held \cup {Len(heap) + 1},
              self, Ref(Len(heap) + 1))

\* self.customize(o), o a node the caller holds
SeqNode(self, o) ==
    /\ Len(heap) < MaxHeap
    /\ self \in HeldNodes
    /\ o \in HeldNodes
    /\ Called(heap, held, self, Ref(o))

MappingOverrideAgain == \E self \in held, its \in SeqOverrides : SeqMapping(self, its)
NodeOverrideAgain == \E self \in held, o \in held : SeqNode(self, o)

NextSeq ==
    \/ MappingOverrideAgain
    \/ NodeOverrideAgain

SpecSeq == Init /\ [][NextSeq]_vars

----------------------------------------------------------------------------
(* The steps of a user of an Options node *)

ListNames == {"a", "c", "*"}
OptionNames == {"a", "b", "c"}

\* the value an option is given, one per name: 'a': 1, 'b': 2, 'c': 3
ValueOf(k) == IF k = "a" THEN 1 ELSE IF k = "b" THEN 2 ELSE 3

\* None and the lists of at most MaxLen names
OptLists ==
    {PyNone} \cup UNION {{PyList(s) : s \in [1..n -> ListNames]} : n \in 0..MaxLen}

\* None and the mappings over the option names, in every insertion order
OptMappings ==
    {OptNone} \cup
    UNION {{OptDict([i \in 1..n |-> [k |-> s[i], v |-> ValueOf(s[i])]]) :
               s \in {t \in [1..n -> OptionNames] :
                         \A i, j \in 1..n : i /= j => t[i] /= t[j]}} :
           n \in 0..Cardinality(OptionNames)}

InitOptions ==
    /\ heap = <<>>
    /\ held = {}
    /\ call = NoCall
    /\ muts = {}
    /\ nmut = 0
    /\ opt = DefaultOptions
    /\ out = NoQuery
    /\ IdleGlob
    /\ IdleLoad
    /\ IdleUnits
    /\ IdleWidget

\* opt.include = l, opt.exclude = l, opt.options = m
SetInclude(l) ==
    /\ opt' = [opt EXCEPT !.include = l]
    /\ out' = NoQuery
    /\ UNCHANGED <<mergeVars, globVars, load, usys, wid>>

SetExclude(l) ==
    /\ opt' = [opt EXCEPT !.exclude = l]
    /\ out' = NoQuery
    /\ UNCHANGED <<mergeVars, globVars, load, usys, wid>>

SetOptions(m) ==
    /\ opt' = [opt EXCEPT !.options = m]
    /\ out' = NoQuery
    /\ UNCHANGED <<mergeVars, globVars, load, usys, wid>>

Answer(op, arg, b, r) ==
    [op |-> op, arg |-> arg, status |-> r.status, bool |-> b,
     keys |-> r.keys, vals |-> r.vals, pairs |-> r.pairs, same |-> r.same,
     at |-> opt]

\* opt.filter(value)
CallFilter(value) ==
    /\ out' = Answer("filter", value, Filter(opt, value), QueryOk(<<>>, <<>>, <<>>))
    /\ UNCHANGED <<opt, mergeVars, globVars, load, usys, wid>>

\* opt.filtered_keys(), opt.filtered_values(), opt.filtered_items()
CallFilteredKeys ==
    /\ out' = Answer("filtered_keys", "", PyNone, FilteredKeys(opt))
    /\ UNCHANGED <<opt, mergeVars, globVars, load, usys, wid>>

CallFilteredValues ==
    /\ out' = Answer("filtered_values", "", PyNone, FilteredValues(opt))
    /\ UNCHANGED <<opt, mergeVars, globVars, load, usys, wid>>

CallFilteredItems ==
    /\ out' = Answer("filtered_items", "", PyNone, FilteredItems(opt))
    /\ UNCHANGED <<opt, mergeVars, globVars, load, usys, wid>>

\* the caller empties the list a query returned: result.clear()
ClearResult ==
    /\ out.op \in {"filtered_keys", "filtered_values", "filtered_items"}
    /\ out.status = "ok"
    /\ out' = [out EXCEPT !.op = "cleared", !.keys = <<>>, !.vals = <<>>,
                          !.pairs = <<>>]
    /\ opt' = IF out.same = "include"
              THEN [opt EXCEPT !.include = PyList(<<>>)]
              ELSE opt
    /\ UNCHANGED <<mergeVars, globVars, load, usys, wid>>

NextOptions ==
    \/ \E l \in OptLists : SetInclude(l)
    \/ \E l \in OptLists : SetExclude(l)
    \/ \E m \in OptMappings : SetOptions(m)
    \/ \E value \in OptionNames \cup ListNames : CallFilter(value)
    \/ CallFilteredKeys
    \/ CallFilteredValues
    \/ CallFilteredItems
    \/ ClearResult

SpecOptions == InitOptions /\ [][NextOptions]_vars

----------------------------------------------------------------------------
(* The steps of a user of an OptionsGlob node *)

\* 'abc.*', '*', '[!a]?[xz].def'
AbcDotStar == <<"a", "b", "c", ".", "*">>
Star == <<"*">>
ClassPattern == <<"[", "!", "a", "]", "?", "[", "x", "z", "]", ".", "d", "e", "f">>

\* 'abc.def', 'xyz.def', 'abc'
AbcDef == <<"a", "b", "c", ".", "d", "e", "f">>
XyzDef == <<"x", "y", "z", ".", "d", "e", "f">>
Abc == <<"a", "b", "c">>

GlobPatterns == {AbcDotStar, Star, ClassPattern}
GlobCandidates == {AbcDef, XyzDef, Abc}

\* None and the lists of at most MaxLen patterns
GlobLists ==
    {PyNone} \cup UNION {{PyList(s) : s \in [1..n -> GlobPatterns]} : n \in 0..MaxLen}

IdleMerge == heap = <<>> /\ held = {} /\ call = NoCall /\ muts = {} /\ nmut = 0
IdleOptions == opt = DefaultOptions /\ out = NoQuery

\* nothing has been called, queried, loaded, validated or constructed yet
InitIdle ==
    IdleMerge /\ IdleOptions /\ IdleGlob /\ IdleLoad /\ IdleUnits /\ IdleWidget

\* gopt.include = l, gopt.exclude = l
SetGlobInclude(l) ==
    /\ gopt' = [gopt EXCEPT !.include = l]
    /\ gout' = NoGlobQuery
    /\ UNCHANGED <<mergeVars, optVars, load, usys, wid>>

SetGlobExclude(l) ==
    /\ gopt' = [gopt EXCEPT !.exclude = l]
    /\ gout' = NoGlobQuery
    /\ UNCHANGED <<mergeVars, optVars, load, usys, wid>>

\* is value available under gopt
CallGlobFilter(value) ==
    /\ gout' = [op |-> "filter", arg |-> value, bool |-> GlobFilter(gopt, value)]
    /\ UNCHANGED <<gopt, mergeVars, optVars, load, usys, wid>>

NextGlob ==
    \/ \E l \in GlobLists : SetGlobInclude(l)
    \/ \E l \in GlobLists : SetGlobExclude(l)
    \/ \E value \in GlobCandidates : CallGlobFilter(value)

SpecGlob == InitIdle /\ [][NextGlob]_vars

----------------------------------------------------------------------------
(* Validating UnitSystem nodes *)

\* the keys and the definitions of the units mappings given
UnitKeys == {"length", "activity", "bogus"}
UnitDefinitions == {"m", "angstrom", "foo"}

\* the units mappings of at most MaxUnits entries, in every insertion order
UnitMappings ==
    UNION {{s \in [1..n -> [k : UnitKeys, d : UnitDefinitions]] :
               \A i, j \in 1..n : i /= j => s[i].k /= s[j].k} : n \in 0..MaxUnits}

\* the definitions that nomad.units.ureg does not know, as it may be set up
Registries == {{"foo"}, {"foo", "kat"}}

\* UnitSystem(label='Custom', units={...})
ValidateGivenUnits(items, undefined) ==
    /\ usys' = ValidateUnitSystem(TRUE, items, undefined)
    /\ UNCHANGED <<mergeVars, optVars, globVars, load, wid>>

\* UnitSystem(label='Custom')
ValidateNoUnits(undefined) ==
    /\ usys' = ValidateUnitSystem(FALSE, <<>>, undefined)
    /\ UNCHANGED <<mergeVars, optVars, globVars, load, wid>>

NextUnits ==
    \/ \E items \in UnitMappings, undefined \in Registries :
           ValidateGivenUnits(items, undefined)
    \/ \E undefined \in Registries : ValidateNoUnits(undefined)

SpecUnits == InitIdle /\ [][NextUnits]_vars

----------------------------------------------------------------------------
(* Constructing a WidgetScatterPlot and customizing it *)

\* the inputs: x is a string, an axis mapping or missing, y a string or
\* an axis mapping, color is missing, None or a string, markers is missing,
\* None, a markers mapping or a mapping with a key Markers does not declare
WidgetInputs ==
    {[k \in {j \in {"x", "y", "color", "markers"} :
                (IF j = "x" THEN x ELSE IF j = "y" THEN y
                 ELSE IF j = "color" THEN c ELSE m) /= Absent} |->
         IF k = "x" THEN x ELSE IF k = "y" THEN y ELSE IF k = "color" THEN c ELSE m] :
       x \in {Str(1), AxisMap(1), Absent}, y \in {Str(2), AxisMap(2)},
       c \in {Absent, None, Str(3)},
       m \in {Absent, None, MarkersMap(4), AxisMap(4)}}

\* the override mappings given to customize
WidgetOverrides ==
    { <<Item("color", Str(5))>>,
      <<Item("x", Str(5))>>,
      <<Item("markers", None), Item("y", Str(5))>>,
      <<Item("bogus", Str(5))>> }

\* w = WidgetScatterPlot(**values)
ConstructWidget(values) ==
    /\ wid.status = "none"
    /\ wid' = ConstructedWidget(values)
    /\ heap' = wid'.heap
    /\ held' = IF wid'.status = "ok" THEN {1} ELSE {}
    /\ UNCHANGED <<call, muts, nmut, optVars, globVars, load, usys>>

\* w.customize({k: v, ...})
CustomizeWidget(its) ==
    /\ wid.status = "ok"
    /\ CustomizeMapping(1, its)

NextWidget ==
    \/ \E values \in WidgetInputs : ConstructWidget(values)
    \/ \E its \in WidgetOverrides : CustomizeWidget(its)

SpecWidget == InitIdle /\ [][NextWidget]_vars

----------------------------------------------------------------------------
(* Loading StrictSettings nodes *)

\* cls(**values) for a document read from the configuration
LoadDocument(c, values) ==
    /\ load' = LoadNode(c, values)
    /\ UNCHANGED <<mergeVars, optVars, globVars, usys, wid>>

NextLoad == \E c \in NodeClasses, values \in Documents : LoadDocument(c, values)

SpecLoad == InitIdle /\ [][NextLoad]_vars

----------------------------------------------------------------------------
(* The last call, as the claims read it *)

WasCalled == call.status /= "none"
HasReturned == call.status = "ok"
HasRaised == call.status = "AssertionError"

\* the override of the last call was a mapping / a node
MappingCall == WasCalled /\ call.arg.t = "ref" /\ call.pre[call.arg.v].cls = "dict"
NodeCall == WasCalled /\ call.arg.t = "ref" /\ IsNode(call.pre[call.arg.v])

\* B and O as they were when the call was made, R as it was returned
BaseObj == call.pre[call.self]
ArgObj == call.pre[call.arg.v]
ArgItems == ArgObj.items
BaseFields == Range(Fields(BaseObj.cls))

\* entry i of the mapping names, with a value that is not None, a field
\* that B does not declare
InvalidItem(i) == ArgItems[i].v /= None /\ ArgItems[i].k \notin BaseFields

\* what the caller can reach
Observable == UNION {Reach(heap, r) : r \in held}

----------------------------------------------------------------------------

\* C1: the node R that B.customize(O) returns is another object than B and
\* shares no mutable sub-value with B, for every O: after in-place mutations
\* made through R, B is as it was, and after mutations made through B, R is
\* as it was.
C1_IndependentOfBase ==
    HasReturned =>
        /\ call.rv /= call.self
        /\ Reach(call.post, call.rv) \cap Reach(call.post, call.self) = {}
        /\ muts \subseteq {"R"} =>
              DeepEq(heap, Ref(call.self), call.post, Ref(call.self))
        /\ muts \subseteq {"B"} =>
              DeepEq(heap, Ref(call.rv), call.post, Ref(call.rv))

\* C2: an override that names, with a value that is not None, a field B
\* does not declare makes customize fail with the invalid-setting error; the
\* error names such a field (with the rejected value, for a mapping), and
\* no node is returned.
C2_UnknownFieldRaises ==
    /\ (MappingCall /\ \E i \in 1..Len(ArgItems) : InvalidItem(i)) =>
          /\ HasRaised /\ call.rv = 0 /\ call.shape = "mapping"
          /\ \E i \in 1..Len(ArgItems) :
                InvalidItem(i) /\ call.field = ArgItems[i].k /\ call.value = ArgItems[i].v
    /\ (NodeCall /\ \E f \in Range(Fields(ArgObj.cls)) :
                       f \notin BaseFields /\ GetAttr(ArgObj, f) /= None) =>
          /\ HasRaised /\ call.rv = 0 /\ call.shape = "node"
          /\ call.field \in Range(Fields(ArgObj.cls)) \ BaseFields

\* C3: for a mapping O whose keys with a value other than None are all
\* declared fields of B, R.k is O[k] for each such key and R.f equals B.f
\* for every other declared field f.
C3_MappingApplied ==
    (MappingCall /\ \A i \in 1..Len(ArgItems) : ~InvalidItem(i)) =>
        /\ HasReturned
        /\ \A i \in 1..Len(ArgItems) :
              ArgItems[i].v /= None =>
                  GetAttr(call.post[call.rv], ArgItems[i].k) = ArgItems[i].v
        /\ \A f \in BaseFields :
              (\A i \in 1..Len(ArgItems) : ArgItems[i].k = f => ArgItems[i].v = None) =>
                  DeepEq(call.post, GetAttr(call.post[call.rv], f),
                         call.pre, GetAttr(BaseObj, f))

C3_Witness ==
    /\ MappingCall /\ HasReturned /\ call.self = 1
    /\ ArgItems = <<Item("options", Num(1))>>
    /\ GetAttr(call.post[call.rv], "options") = Num(1)
    /\ GetAttr(call.post[call.rv], "exclude").t = "ref"

\* C4: for an override node O all of whose fields B declares, R.f is O.f
\* for every field f of O's class, the fields of O that are None included.
C4_NodeAppliedInFull ==
    (NodeCall /\ Range(Fields(ArgObj.cls)) \subseteq BaseFields) =>
        /\ HasReturned
        /\ \A f \in Range(Fields(ArgObj.cls)) :
              GetAttr(call.post[call.rv], f) = GetAttr(ArgObj, f)

C4_Witness ==
    /\ NodeCall /\ HasReturned /\ call.self = 1 /\ call.arg = Ref(4)
    /\ ArgObj.cls = BaseObj.cls
    /\ GetAttr(BaseObj, "exclude") /= None
    /\ GetAttr(ArgObj, "exclude") = None
    /\ GetAttr(call.post[call.rv], "exclude") = None

\* C5: an entry of a mapping override whose value is None is skipped: it
\* raises nothing, declared or not, and R keeps B's value for that name.
C5_NoneSkipped ==
    MappingCall =>
        /\ HasRaised => call.value /= None
        /\ (\A i \in 1..Len(ArgItems) : ~InvalidItem(i)) => HasReturned
        /\ HasReturned =>
              \A i \in 1..Len(ArgItems) :
                  (ArgItems[i].v = None /\ ArgItems[i].k \in BaseFields) =>
                      DeepEq(call.post, GetAttr(call.post[call.rv], ArgItems[i].k),
                             call.pre, GetAttr(BaseObj, ArgItems[i].k))

C5_Witness ==
    /\ MappingCall /\ HasReturned /\ call.self = 1
    /\ ArgItems = <<Item("bogus", None), Item("exclude", None)>>
    /\ GetAttr(call.post[call.rv], "exclude").t = "ref"

\* C6: B.customize({}) and B.customize(None) return a node that equals B at
\* every nesting depth and is not B itself.
C6_EmptyOverrideCopies ==
    (WasCalled /\ (call.arg = None \/ (MappingCall /\ ArgItems = <<>>))) =>
        /\ HasReturned
        /\ call.rv /= call.self
        /\ DeepEq(call.post, Ref(call.rv), call.pre, Ref(call.self))

C6_Witness ==
    /\ MappingCall /\ ArgItems = <<>> /\ HasReturned
    /\ call.self = 1 /\ call.rv /= 1
    /\ call.pre[3].items[1].v = Ref(2)

\* C7: a call to customize, returning or raising, leaves B, O and every
\* other object that existed before it as they were.
C7_ArgumentsNotMutated ==
    WasCalled => \A a \in 1..Len(call.pre) : call.post[a] = call.pre[a]

C7_Witness ==
    /\ MappingCall /\ HasRaised
    /\ ~DeepEq(call.post, Ref(call.local), call.pre, Ref(call.self))

\* C8: customize fails at the first invalid key of a mapping, in the
\* mapping's order; no later key is applied, and the partially updated
\* copy is neither returned nor reachable by the caller.
C8_FailFast ==
    (MappingCall /\ HasRaised) =>
        /\ call.rv = 0
        /\ call.local \notin Observable
        /\ \E i \in 1..Len(ArgItems) :
              /\ InvalidItem(i)
              /\ \A j \in 1..(i - 1) : ~InvalidItem(j)
              /\ call.field = ArgItems[i].k
              /\ call.value = ArgItems[i].v
              /\ \A j \in (i + 1)..Len(ArgItems) :
                    ArgItems[j].k \in BaseFields =>
                        DeepEq(call.post, GetAttr(call.post[call.local], ArgItems[j].k),
                               call.pre, GetAttr(BaseObj, ArgItems[j].k))

\* C9: filter(v) is a boolean, true exactly when v is included and not
\* excluded: included when include is None or empty, or holds v or '*';
\* excluded when exclude is not empty and holds v or '*'.
C9_FilterIsIncludedNotExcluded ==
    out.op = "filter" =>
        LET inc == opt.include.l
            exc == opt.exclude.l
            included == opt.include = PyNone \/ inc = <<>>
                           \/ out.arg \in Range(inc) \/ "*" \in Range(inc)
            excluded == exc /= <<>> /\ (out.arg \in Range(exc) \/ "*" \in Range(exc))
        IN /\ out.status = "ok"
           /\ out.bool.t = "bool"
           /\ out.bool.b = (included /\ ~excluded)

C9_Witness ==
    /\ out.op = "filter" /\ out.arg = "b"
    /\ opt.include = PyList(<<>>)
    /\ opt.exclude = PyList(<<"a">>)
    /\ out.bool = PyBool(TRUE)

\* C10: exclusion wins over inclusion: filter(v) is false for every v of
\* exclude, whatever include holds, and no name of exclude is a key of
\* filtered_keys() or filtered_items(), nor is its option's value one of
\* filtered_values().
C10_ExcludeWins ==
    LET exc == Range(opt.exclude.l)
    IN /\ (out.op = "filter" /\ out.arg \in exc) => out.bool = PyBool(FALSE)
       /\ out.op = "filtered_keys" => \A i \in 1..Len(out.keys) : out.keys[i] \notin exc
       /\ out.op = "filtered_items" => \A i \in 1..Len(out.pairs) : out.pairs[i].k \notin exc
       /\ out.op = "filtered_values" =>
             \A i \in 1..Len(out.vals) :
                 \A k \in exc : out.vals[i] /= ValueOf(k)

C10_Witness ==
    /\ opt.options = OptDict(<<[k |-> "a", v |-> 1], [k |-> "b", v |-> 2],
                               [k |-> "c", v |-> 3]>>)
    /\ opt.include = PyList(<<"a", "c">>)
    /\ opt.exclude = PyList(<<"c">>)
    /\ out.op = "filtered_values" /\ out.status = "ok"
    /\ out.vals = <<1>>

\* the exclude list holds '*'; the include list is given and holds '*'
ExcludeAll == opt.exclude /= PyNone /\ "*" \in Range(opt.exclude.l)
IncludeAll == opt.include /= PyNone /\ "*" \in Range(opt.include.l)

\* the options are a mapping (not None), so that they have keys
HasOptions == opt.options.t = "dict"

\* the names of s that exclude does not hold, in the order of s
WithoutExcluded(s) == SelectSeq(s, LAMBDA k : k \notin Range(opt.exclude.l))

\* the names of s that are keys of options, in the order of s
WithoutDangling(s) == SelectSeq(s, LAMBDA k : k \in Range(OptionKeys(opt)))

\* C11: with '*' in exclude, filtered_keys() returns the empty list and
\* never raises, whatever include and options are, options None included.
C11_ExcludeAllGivesEmpty ==
    (out.op = "filtered_keys" /\ ExcludeAll) =>
        (out.status = "ok" /\ out.keys = <<>>)

\* C12: with include and exclude absent, filtered_keys() is the list of
\* all keys of options, in insertion order.
C12_AbsentListsGiveAllKeys ==
    (out.op = "filtered_keys" /\ opt.include = PyNone /\ opt.exclude = PyNone
        /\ HasOptions) =>
        (out.status = "ok" /\ out.keys = OptionKeys(opt))

C12_Witness ==
    /\ out.op = "filtered_keys" /\ opt.include = PyNone /\ opt.exclude = PyNone
    /\ out.keys = <<"c", "a", "b">>

\* C13: with '*' in include and no '*' in exclude, filtered_keys() is all
\* keys of options in insertion order without the keys that exclude holds;
\* the names listed next to '*' add nothing and change no order.
C13_IncludeAllGivesKeysMinusExcluded ==
    (out.op = "filtered_keys" /\ IncludeAll /\ ~ExcludeAll /\ HasOptions) =>
        (out.status = "ok" /\ out.keys = WithoutExcluded(OptionKeys(opt)))

C13_Witness ==
    /\ out.op = "filtered_keys"
    /\ opt.include = PyList(<<"c", "*">>)
    /\ opt.exclude = PyList(<<"a">>)
    /\ OptionKeys(opt) = <<"a", "b", "c">>
    /\ out.keys = <<"b", "c">>

\* C14, as claimed: with an explicit include list without '*',
\* filtered_keys() is the include list without the members of exclude, in
\* include's order, names that are no keys of options kept.
C14_ExplicitIncludeMinusMembers ==
    (out.op = "filtered_keys" /\ opt.include /= PyNone /\ ~IncludeAll) =>
        (out.status = "ok" /\ out.keys = WithoutExcluded(opt.include.l))

\* C14, amended: the same, for an exclude list that does not hold '*'.
C14_ExplicitIncludeKept ==
    (out.op = "filtered_keys" /\ opt.include /= PyNone /\ ~IncludeAll /\ ~ExcludeAll) =>
        (out.status = "ok" /\ out.keys = WithoutExcluded(opt.include.l))

C14_Witness ==
    /\ out.op = "filtered_keys"
    /\ OptionKeys(opt) = <<"a">>
    /\ opt.include = PyList(<<"c", "a">>)
    /\ opt.exclude = PyNone
    /\ out.keys = <<"c", "a">>

\* C15, as claimed: in every Options state filtered_values() raises nothing
\* and is options[k] for the keys k of filtered_keys() that are keys of
\* options, in that order, so that as many values are missing as there are
\* names of filtered_keys() that are no keys of options.
C15_ValuesInEveryState ==
    out.op = "filtered_values" =>
        /\ out.status = "ok"
        /\ LET ks == FilteredKeys(opt).keys
               present == WithoutDangling(ks)
               dangling == {i \in 1..Len(ks) : ks[i] \notin Range(OptionKeys(opt))}
           IN /\ out.vals = [i \in 1..Len(present) |-> ValueOf(present[i])]
              /\ Len(out.vals) = Len(ks) - Cardinality(dangling)

\* C15, amended: the same, in every Options state whose options is a
\* mapping: filtered_values() is options[k] for the keys k of
\* filtered_keys() that are keys of options, in that order; the other names
\* are dropped and nothing is raised, so as many values are missing as
\* there are such names.
C15_ValuesOfPresentKeys ==
    (out.op = "filtered_values" /\ HasOptions) =>
        LET ks == FilteredKeys(opt).keys
            present == WithoutDangling(ks)
            dangling == {i \in 1..Len(ks) : ks[i] \notin Range(OptionKeys(opt))}
        IN /\ out.status = "ok"
           /\ out.vals = [i \in 1..Len(present) |-> ValueOf(present[i])]
           /\ Len(out.vals) = Len(ks) - Cardinality(dangling)

C15_Witness ==
    /\ out.op = "filtered_values" /\ out.status = "ok"
    /\ OptionKeys(opt) = <<"a">>
    /\ opt.include = PyList(<<"c", "a">>)
    /\ opt.exclude = PyNone
    /\ out.vals = <<1>>

\* C16, as claimed: the keys of the pairs of filtered_items() are
\* filtered_keys().
C16_ItemKeysAreFilteredKeys ==
    out.op = "filtered_items" =>
        [i \in 1..Len(out.pairs) |-> out.pairs[i].k] = FilteredKeys(opt).keys

\* C16, amended: the keys of the pairs of filtered_items() are the names of
\* filtered_keys() that are keys of options, in that order, and each pair's
\* value is options[key].
C16_ItemKeysArePresentKeys ==
    (out.op = "filtered_items" /\ HasOptions) =>
        /\ out.status = "ok"
        /\ [i \in 1..Len(out.pairs) |-> out.pairs[i].k]
              = WithoutDangling(FilteredKeys(opt).keys)
        /\ \A i \in 1..Len(out.pairs) : out.pairs[i].v = ValueOf(out.pairs[i].k)

C16_Witness ==
    /\ out.op = "filtered_items" /\ out.status = "ok"
    /\ OptionKeys(opt) = <<"a">>
    /\ opt.include = PyList(<<"c", "a">>)
    /\ opt.exclude = PyNone
    /\ FilteredKeys(opt).keys = <<"c", "a">>
    /\ out.pairs = <<[k |-> "a", v |-> 1]>>

\* the queries of an Options node that return a list
ListQueries == {"filtered_keys", "filtered_values", "filtered_items"}

\* what the query named op returns on the node as it is now
QueryNow(op) ==
    IF op = "filtered_keys" THEN FilteredKeys(opt)
    ELSE IF op = "filtered_values" THEN FilteredValues(opt)
    ELSE FilteredItems(opt)

\* C18: filtered_keys(), filtered_values() and filtered_items() only read
\* and keep nothing: after a call include, exclude and options are what
\* they were, the list returned is a new list, so that emptying it changes
\* neither include nor options, and the answer on hand is the one computed
\* from the fields as they are, never one from an earlier state.
C18_QueriesReadOnlyUncached ==
    /\ out.op \in ListQueries \cup {"cleared"} => out.at = opt
    /\ (out.op \in ListQueries /\ out.status = "ok") => out.same = "new"
    /\ out.op \in ListQueries =>
          /\ out.status = QueryNow(out.op).status
          /\ out.keys = QueryNow(out.op).keys
          /\ out.vals = QueryNow(out.op).vals
          /\ out.pairs = QueryNow(out.op).pairs

C18_Witness ==
    /\ out.op = "cleared"
    /\ opt.include = PyList(<<"c", "a">>)
    /\ opt.exclude = PyNone
    /\ OptionKeys(opt) = <<"a", "c">>

\* the candidates a pattern matches under shell-glob semantics, by hand
ShellMatches ==
    {<<AbcDotStar, AbcDef>>,
     <<Star, AbcDef>>, <<Star, XyzDef>>, <<Star, Abc>>,
     <<ClassPattern, XyzDef>>}

\* value matches at least one pattern of the list x
MatchesOneOf(value, x) == \E i \in 1..Len(x.l) : <<x.l[i], value>> \in ShellMatches

\* C17: the glob variant decides with the precedence of the exact filter,
\* a candidate being in a list when it matches at least one of its
\* patterns: with include=['abc.*'] 'abc.def' is included and 'xyz.def' is
\* not, and the pattern '*' matches everything.
C17_GlobFilterMatchesPatterns ==
    gout.op = "filter" =>
        LET included == \/ gopt.include = PyNone
                        \/ gopt.include.l = <<>>
                        \/ MatchesOneOf(gout.arg, gopt.include)
            excluded == gopt.exclude /= PyNone /\ MatchesOneOf(gout.arg, gopt.exclude)
        IN /\ PyTruthy(gout.bool) = (included /\ ~excluded)
           /\ (gopt.include = PyList(<<AbcDotStar>>) /\ gopt.exclude = PyNone) =>
                 PyTruthy(gout.bool) = (gout.arg = AbcDef)
           /\ (gopt.include /= PyNone /\ Star \in Range(gopt.include.l)
                  /\ gopt.exclude = PyNone) => PyTruthy(gout.bool)
           /\ (gopt.exclude /= PyNone /\ Star \in Range(gopt.exclude.l)) =>
                 ~PyTruthy(gout.bool)

C17_Witness ==
    /\ gout.op = "filter" /\ gout.arg = AbcDef
    /\ gopt.include = PyList(<<ClassPattern, AbcDotStar>>)
    /\ gopt.exclude = PyList(<<ClassPattern>>)
    /\ PyTruthy(gout.bool)

\* the document without the keys that are no fields of the class
DeclaredOnly(c, values) ==
    [k \in DOMAIN values \cap Range(Fields(c)) |-> values[k]]

\* C19: keys that are no declared fields never make the loading of a
\* StrictSettings node fail: a warning naming them is logged exactly when
\* there are some, the node does not hold them, and the declared fields
\* get the values they get from the document without those keys.
C19_UnknownKeysIgnoredWithWarning ==
    load.status /= "none" =>
        LET declared == Range(Fields(load.cls))
            unknown == DOMAIN load.values \ declared
            clean == LoadNode(load.cls, DeclaredOnly(load.cls, load.values))
        IN /\ load.status = clean.status
           /\ load.log = IF unknown = {} THEN <<>> ELSE <<unknown>>
           /\ load.status = "ok" =>
                 /\ DOMAIN load.node = declared
                 /\ load.node = clean.node

C19_Witness ==
    /\ load.status = "ok" /\ load.cls = "OptionsBase"
    /\ DOMAIN load.values = {"include", "options", "bogus"}
    /\ load.log = <<{"options", "bogus"}>>
    /\ load.node["include"] = "value"

\* the names bound in the __dict__ of the object at address a, in order:
\* the names the copy took over and the names setattr bound
BoundNames(a) == [i \in 1..Len(heap[a].items) |-> heap[a].items[i].k]

\* C20: the field set of a node is fixed: after any sequence of customize
\* calls, with mapping or node overrides, succeeding or failing, every node
\* there is, B and the nodes produced, holds values for exactly the fields
\* its class declares, and a node returned has the class and the names of
\* the node it was made from.
C20_FieldSetFixed ==
    /\ \A a \in 1..Len(heap) : IsNode(heap[a]) => BoundNames(a) = Fields(heap[a].cls)
    /\ call.status = "ok" =>
          /\ heap[call.rv].cls = heap[call.self].cls
          /\ BoundNames(call.rv) = BoundNames(call.self)

\* C25: for an Options whose include is None or a non-empty list, a key k
\* of options is in filtered_keys() exactly when filter(k) is true.
C25_KeysAgreeWithFilter ==
    (HasOptions /\ (opt.include = PyNone \/ opt.include.l /= <<>>)) =>
        /\ out.op = "filtered_keys" =>
              /\ out.status = "ok"
              /\ \A k \in Range(OptionKeys(opt)) :
                    (k \in Range(out.keys)) = PyTruthy(Filter(opt, k))
        /\ (out.op = "filter" /\ out.arg \in Range(OptionKeys(opt))) =>
              PyTruthy(out.bool) = (out.arg \in Range(FilteredKeys(opt).keys))

C25_Witness ==
    /\ out.op = "filtered_keys"
    /\ opt.include = PyList(<<"c", "*">>)
    /\ opt.exclude = PyList(<<"a">>)
    /\ OptionKeys(opt) = <<"b", "a", "c">>
    /\ out.keys = <<"b", "c">>

\* C26: with include=[] and exclude absent, filter(v) is true for every v,
\* while filtered_keys(), filtered_values() and filtered_items() are empty.
C26_EmptyIncludeDiffers ==
    (opt.include = PyList(<<>>) /\ opt.exclude = PyNone) =>
        /\ out.op = "filter" => out.bool = PyBool(TRUE)
        /\ out.op \in ListQueries =>
              /\ out.status = "ok"
              /\ out.keys = <<>> /\ out.vals = <<>> /\ out.pairs = <<>>

C26_Witness ==
    /\ opt.include = PyList(<<>>) /\ opt.exclude = PyNone
    /\ OptionKeys(opt) = <<"a", "b">>
    /\ out.op = "filter" /\ out.arg = "a"
    /\ out.bool = PyBool(TRUE)

\* the fields of R that the last call's override set: the keys of the
\* mapping with a value other than None, or the fields of the override node
Overridden ==
    IF MappingCall
    THEN {ArgItems[i].k : i \in {j \in 1..Len(ArgItems) : ArgItems[j].v /= None}}
    ELSE IF NodeCall THEN Range(Fields(ArgObj.cls))
    ELSE {}

\* C27: customize deep-copies B but assigns the override values by
\* reference: each overridden field of R holds the very object that O
\* holds, so a change made in place to such an object through R shows in
\* O; the fields taken from B hold copies made by the call.
C27_OverridesByReference ==
    HasReturned =>
        LET R == call.post[call.rv]
        IN /\ \A f \in Overridden : GetAttr(R, f) = GetAttr(ArgObj, f)
           /\ \A f \in Overridden :
                 GetAttr(R, f).t = "ref" =>
                     /\ GetAttr(R, f).v \in 1..Len(call.pre)
                     /\ (muts = {"R"} /\ heap[GetAttr(R, f).v] /= call.post[GetAttr(R, f).v]) =>
                           ~DeepEq(heap, call.arg, call.post, call.arg)
           /\ \A f \in BaseFields \ Overridden :
                 GetAttr(R, f).t = "ref" =>
                     Reach(call.post, GetAttr(R, f).v) \cap 1..Len(call.pre) = {}

C27_Witness ==
    /\ MappingCall /\ HasReturned /\ call.self = 4
    /\ ArgItems = <<Item("exclude", Ref(2))>>
    /\ muts = {"R"}
    /\ GetAttr(heap[call.rv], "exclude") = Ref(2)
    /\ heap[2] /= call.post[2]

\* the definition units holds for dimension d
DefinitionOf(units, d) == units[CHOOSE i \in 1..Len(units) : units[i].k = d].d

\* the definitions a validated unit system has to hold: those given, and
\* the SI defaults of the dimensions not given
Expected(d) ==
    IF d \in UnitKeysOf(usys.items) THEN DefinitionOf(usys.items, d) ELSE SI(d)

\* C21: a validated UnitSystem has a units entry for every supported
\* dimension: a dimension given keeps the definition given, a dimension not
\* given, every one when units is omitted, gets its SI default.
C21_UnitsCompleteWithDefaults ==
    usys.status = "ok" =>
        /\ UnitKeysOf(usys.units) = Range(dimensions)
        /\ Len(usys.units) = Len(dimensions)
        /\ \A d \in Range(dimensions) : DefinitionOf(usys.units, d) = Expected(d)
        /\ DefinitionOf(usys.units, "length") \in {"m", "angstrom"}
        /\ DefinitionOf(usys.units, "mass") = "kg"
        /\ DefinitionOf(usys.units, "time") = "s"
        /\ DefinitionOf(usys.units, "energy") = "J"

C21_Witness ==
    /\ usys.status = "ok" /\ usys.given
    /\ usys.items = <<Unit("length", "angstrom")>>
    /\ DefinitionOf(usys.units, "length") = "angstrom"
    /\ DefinitionOf(usys.units, "activity") = "kat"

\* C22: a units key that is no supported dimension makes the validation
\* fail with the 'Unsupported dimension' error, before a default is filled
\* in and before a definition is looked up: an input that also holds an
\* unknown unit reports the dimension.
C22_UnsupportedDimensionFirst ==
    (usys.status /= "none" /\ \E k \in UnitKeysOf(usys.items) : k \notin Range(dimensions)) =>
        /\ usys.status = "AssertionError"
        /\ usys.kind = "Unsupported dimension"
        /\ usys.subject \in UnitKeysOf(usys.items) \ Range(dimensions)
        /\ usys.looked = <<>>
        /\ usys.supplied = usys.items

C22_Witness ==
    /\ usys.items = <<Unit("length", "foo"), Unit("bogus", "angstrom")>>
    /\ usys.kind = "Unsupported dimension" /\ usys.subject = "bogus"

\* C23: the validation fails with the 'Unsupported unit' error when the
\* definition of an entry of units, given or filled in as SI default, is
\* unknown to the registry, and a UnitSystem is constructed only if every
\* definition it holds is known.
C23_UnknownUnitRejected ==
    usys.status /= "none" =>
        LET unknown == {d \in Range(dimensions) : Expected(d) \in usys.undefined}
        IN /\ (unknown /= {} /\ UnitKeysOf(usys.items) \subseteq Range(dimensions)) =>
                 /\ usys.status = "AssertionError"
                 /\ usys.kind = "Unsupported unit"
                 /\ usys.subject \in {Expected(d) : d \in unknown}
           /\ usys.status = "ok" =>
                 \A i \in 1..Len(usys.units) : usys.units[i].d \notin usys.undefined

C23_Witness ==
    /\ usys.items = <<Unit("length", "angstrom")>>
    /\ usys.undefined = {"foo", "kat"}
    /\ usys.kind = "Unsupported unit" /\ usys.subject = "kat"

\* C30: the validator fills the SI defaults into the mapping it was
\* handed: once the fill step is reached the mapping the caller supplied
\* holds every supported dimension, also when an unknown unit then makes
\* the validation fail; when the validation fails on an unsupported
\* dimension the mapping is as it was.
C30_SuppliedMappingFilledInPlace ==
    (usys.status /= "none" /\ usys.given) =>
        /\ usys.kind = "Unsupported dimension" => usys.supplied = usys.items
        /\ usys.kind /= "Unsupported dimension" =>
              /\ UnitKeysOf(usys.supplied) = Range(dimensions)
              /\ SubSeq(usys.supplied, 1, Len(usys.items)) = usys.items
              /\ \A d \in Range(dimensions) : DefinitionOf(usys.supplied, d) = Expected(d)

C30_Witness ==
    /\ usys.given /\ usys.items = <<Unit("activity", "foo")>>
    /\ usys.kind = "Unsupported unit"
    /\ Len(usys.supplied) = Len(dimensions)

\* the widget constructed, and the quantity of the Axis that value x of
\* heap h refers to (None if x refers to no Axis)
Widget == wid.heap[1]
QuantityOf(h, x) ==
    IF x.t = "ref" /\ h[x.v].cls = "Axis" THEN GetAttr(h[x.v], "quantity") ELSE None

\* the quantity of the color axis of the widget's markers (None if the
\* widget has no markers)
MarkersQuantity ==
    LET m == GetAttr(Widget, "markers")
    IN IF m.t = "ref" /\ wid.heap[m.v].cls = "Markers"
       THEN QuantityOf(wid.heap, GetAttr(wid.heap[m.v], "color"))
       ELSE None

\* C24: constructing a WidgetScatterPlot normalizes the legacy shape: an x
\* or y given as a string s becomes an axis with quantity s, one given as
\* an axis mapping is left as given, a color c that is not None is moved
\* to markers = {color: {quantity: c}} and removed from the input, and the
\* widget constructed has color unset and x and y as Axis objects.
C24_LegacyShapeNormalized ==
    wid.status = "ok" =>
        /\ \A k \in {"x", "y"} :
              /\ QuantityOf(wid.heap, GetAttr(Widget, k)) = Str(wid.input[k].v)
              /\ wid.input[k].t = "axis" => wid.values[k] = wid.input[k]
        /\ Get(wid.input, "color") /= None =>
              /\ "color" \notin DOMAIN wid.values
              /\ wid.values["markers"] = MarkersMap(wid.input["color"].v)
              /\ MarkersQuantity = Str(wid.input["color"].v)
        /\ GetAttr(Widget, "color") = None

C24_Witness ==
    /\ wid.status = "ok"
    /\ wid.input["x"] = Str(1) /\ wid.input["y"] = AxisMap(2)
    /\ Get(wid.input, "color") = Str(3) /\ "markers" \notin DOMAIN wid.input
    /\ MarkersQuantity = Str(3)
    /\ QuantityOf(wid.heap, GetAttr(Widget, "x")) = Str(1)

\* C28: customize sets the override values as they are, no validator or
\* normalizer is run: customize({'color': q}) returns a widget whose color
\* is q and whose markers are those of the base, and customize({'x': s})
\* one whose x is the string s, not an axis.
C28_CustomizeSkipsNormalizer ==
    (wid.status = "ok" /\ HasReturned) =>
        LET R == call.post[call.rv]
        IN /\ \A i \in 1..Len(ArgItems) :
                 ArgItems[i].v /= None => GetAttr(R, ArgItems[i].k) = ArgItems[i].v
           /\ \A f \in BaseFields \ Overridden :
                 DeepEq(call.post, GetAttr(R, f), call.pre, GetAttr(BaseObj, f))
           /\ Len(call.post) = Len(call.pre) + Cardinality(Reach(call.pre, call.self))

C28_Witness ==
    /\ wid.status = "ok" /\ HasReturned
    /\ ArgItems = <<Item("color", Str(5))>>
    /\ GetAttr(heap[call.rv], "color") = Str(5)
    /\ MarkersQuantity = Str(4)
    /\ QuantityOf(heap, GetAttr(heap[call.rv], "color")) = None

\* C29: an input with a color that is not None and a markers value has its
\* markers replaced by {color: {quantity: color}}, the markers given being
\* discarded; with color None or absent the markers given are kept.
C29_ColorOverwritesMarkers ==
    (wid.status = "ok" /\ "markers" \in DOMAIN wid.input) =>
        IF Get(wid.input, "color") /= None
        THEN MarkersQuantity = Str(wid.input["color"].v)
        ELSE /\ wid.values["markers"] = wid.input["markers"]
             /\ wid.input["markers"].t = "markers" =>
                   MarkersQuantity = Str(wid.input["markers"].v)
             /\ wid.input["markers"] = None => GetAttr(Widget, "markers") = None

C29_Witness ==
    /\ wid.status = "ok"
    /\ Get(wid.input, "color") = Str(3)
    /\ Get(wid.input, "markers") = MarkersMap(4)
    /\ MarkersQuantity = Str(3)

====
